---- MODULE Spec2Model ----
(***************************************************************************)
(* A model of pino-file-logger-transport: the file sink built by           *)
(* fileTransport (src/src/transport.ts) with its level filter, write       *)
(* buffer, flush timer, date rotation, retention cleanup and archive pass. *)
(*                                                                         *)
(* Time is counted in ticks of UTC time, TicksPerDay ticks to a day.  A    *)
(* calendar date is a day number; the text YYYY-MM-DD of a date is that    *)
(* day number, read back by new Date(text) as UTC midnight of the day.     *)
(*                                                                         *)
(* The repository holds the cleanup and archive helpers twice: inside      *)
(* transport.ts and, extracted, in utils/file-cleanup.ts and               *)
(* utils/archiver.ts (src/unnamed/part_007).  host.impl says which copy    *)
(* the sink is linked with.                                                *)
(***************************************************************************)
EXTENDS Integers, Sequences, FiniteSets, TLC

VARIABLES
  options,     \* FileTransportOptions after defaults (immutable)
  host,        \* [tz: offset of local time from UTC in ticks, impl: helper copy]
  now,         \* the wall clock, in ticks of UTC time
  disk,        \* the log directory: file name -> file
  logDirectory, \* what the path options.logDirectory names: "present", "absent",
               \* "unusable" (cannot be created or read) or "invalid" (not a legal path)
  streams,     \* every stream created so far, in creation order
  stream,      \* `stream`: index in streams of the sink's current stream (0 before construction)
  lastDate,    \* `lastDate`
  buffer,      \* `buffer`: the serialised records not yet written
  flushTimer,  \* `flushTimer` holds a timer (is not null)
  timers,      \* the timeouts of setTimeout that are pending
  pc,          \* where the ingest loop is
  obj,         \* the record a rotation is in flight for, with the date read for it
  nRead,       \* records the loop has taken from the source
  closePc,     \* where close() is
  closeWait,   \* the stream close() waits on for 'finish'
  rotArch,     \* log files the rotation's archive pass has still to archive (head in progress)
  closeArch,   \* the same, of close()'s archive pass
  closeDate,   \* `currentDate` of close(): the date its archive pass spares
  dropped,     \* history: records handed to a write that failed (each logged by an error handler)
  written,     \* history: [id, date] for every record a write put into the file of that date
  accepted,    \* history: per record read, the date read for it (NoDate if the filter skipped it)
  atClose,     \* history: the records that were in the buffer when close() was called
  archiveFailed, \* history: an archive step has failed (each failure is logged)
  fallbackOut, \* history: the records a fallback stream printed with console.log
  startupLog   \* history: the failures fileTransport reported with console.error

vars == <<options, host, now, disk, streams, stream, lastDate, buffer, flushTimer, timers,
          pc, obj, nRead, closePc, closeWait, rotArch, closeArch, closeDate,
          dropped, written, accepted, atClose, archiveFailed, logDirectory,
          fallbackOut, startupLog>>

---------------------------------------------------------------------------
(* Bounds of the model *)

MaxRecords == 2
MaxTicks == 2
TicksPerDay == 2
StartDay == 3

FirstTick == StartDay * TicksPerDay
\* the clock of the long runs stops a day after the clock of the others
LastTick == FirstTick + MaxTicks
LongLastTick == LastTick + TicksPerDay
Days == (StartDay - 2) .. (LongLastTick \div TicksPerDay)

---------------------------------------------------------------------------
(* Numbers as JavaScript has them: a finite integer or NaN *)

Num(n) == [finite |-> TRUE, v |-> n]
NaN == [finite |-> FALSE, v |-> 0]

\* Number.isFinite
isFinite(x) == x.finite

---------------------------------------------------------------------------
(* Level filter *)

Levels == {"silent", "fatal", "error", "warn", "info", "debug", "trace"}
PinoLevels == {10, 20, 30, 40, 50, 60}

getLevelValue(level) ==
  CASE level = "silent" -> 0
    [] level = "fatal" -> 1
    [] level = "error" -> 2
    [] level = "warn" -> 3
    [] level = "info" -> 4
    [] level = "debug" -> 5
    [] level = "trace" -> 6
    [] OTHER -> 4

\* a faulty switch whose default is the least urgent level
logLevelStrDefaultTrace(logLevel) ==
  CASE logLevel = 10 -> "trace"
    [] logLevel = 20 -> "debug"
    [] logLevel = 30 -> "info"
    [] logLevel = 40 -> "warn"
    [] logLevel = 50 -> "error"
    [] logLevel = 60 -> "fatal"
    [] OTHER -> "trace"

\* the switch of shouldWriteLog from Pino's numeric level to its name
logLevelStr(logLevel) ==
  CASE logLevel = 10 -> "trace"
    [] logLevel = 20 -> "debug"
    [] logLevel = 30 -> "info"
    [] logLevel = 40 -> "warn"
    [] logLevel = 50 -> "error"
    [] logLevel = 60 -> "fatal"
    [] OTHER -> "info"

\* objLevel is obj.level, 0 when the field is missing or zero (both falsy)
\* faulty variant of shouldWriteLog: the threshold level itself is skipped
shouldWriteLogStrict(objLevel, configuredLevel) ==
  IF configuredLevel = "silent" THEN FALSE
  ELSE LET logLevel == IF objLevel # 0 THEN objLevel ELSE 30
       IN getLevelValue(logLevelStr(logLevel)) < getLevelValue(configuredLevel)

shouldWriteLog(objLevel, configuredLevel) ==
  IF configuredLevel = "silent" THEN FALSE
  ELSE LET logLevel == IF objLevel # 0 THEN objLevel ELSE 30
       IN getLevelValue(logLevelStr(logLevel)) <= getLevelValue(configuredLevel)

---------------------------------------------------------------------------
(* Clock and names *)

\* the local calendar date of tick t, as getCurrentDate formats it
getCurrentDate(t) == (t + host.tz) \div TicksPerDay

\* new Date("YYYY-MM-DD"): a date-only text is read as UTC midnight
ParseDate(day) == day * TicksPerDay

NoDate == 0 - 1

\* A file is named by the directory it is in and the three parts of its name,
\* <base>-<date>.<ext>.  The directories are "." (logDirectory), "archive" (an
\* archiveDirectory other than logDirectory) and ".." (the parent of
\* logDirectory).

\* path.dirname and path.basename of a filename of the model
dirname(filename) == IF filename = "../app" THEN ".." ELSE "."
basename(filename) == IF filename = "../app" THEN "app" ELSE filename

\* join(logDirectory, `${filename}-${date}.log`): join resolves the
\* directory part of the filename against logDirectory
logName(filename, date) ==
  [dir |-> dirname(filename), base |-> basename(filename), date |-> date, ext |-> "log"]

\* archiveDirectory || logDirectory
targetArchiveDirectory(archiveDirectory) ==
  IF archiveDirectory # "" THEN archiveDirectory ELSE "."

getArchiveExtension(archiveFormat) ==
  CASE archiveFormat = "zip" -> "zip"
    [] archiveFormat = "gzip" -> "tar.gz"
    [] archiveFormat = "tar" -> "tar"
    [] archiveFormat = "none" -> ""
    [] OTHER -> "zip"

\* a faulty archiveName that ignores archiveDirectory
archiveNameInLogDirectory(logFile, archiveFormat) ==
  IF logFile.ext = "log" THEN [logFile EXCEPT !.ext = getArchiveExtension(archiveFormat)]
  ELSE logFile

\* join(targetArchiveDirectory, logFile.replace(/\.log$/, archiveExtension))
archiveName(logFile, archiveFormat) ==
  IF logFile.ext = "log"
  THEN [logFile EXCEPT !.ext = getArchiveExtension(archiveFormat),
                       !.dir = targetArchiveDirectory(options.archiveDirectory)]
  ELSE [logFile EXCEPT !.dir = targetArchiveDirectory(options.archiveDirectory)]

\* a file of logDirectory whose name carries no date, such as app.log
Undated(filename, ext) == [dir |-> ".", base |-> filename, date |-> NoDate, ext |-> ext]

\* the days of a run and the day before it
RunDays == {d \in Days : d >= StartDay - 1}

\* the base of the sink, and the base of the files another program keeps in
\* the same directory
Bases == {"app", "app2"}

\* the files of the model: dated and undated logs and zip containers of the
\* base in logDirectory; the tar and tar.gz containers the runs can write
\* there; the containers they can write in the archive directory; the
\* logs they can write in the parent of logDirectory; and the logs of the
\* other base of the two days before a run, with their zip containers
Names ==
  {f \in [dir : {".", "archive", ".."}, base : Bases, date : Days \cup {NoDate},
          ext : {"log", "zip", "tar.gz", "tar"}] :
     IF f.base = "app"
     THEN CASE f.dir = "." -> \/ f.ext \in {"log", "zip"}
                              \/ f.date \in RunDays /\ f.date < StartDay + 1
            [] f.dir = "archive" -> f.ext # "log" /\ f.date \in RunDays /\ f.date < StartDay + 1
            [] OTHER -> f.ext = "log" /\ f.date \in RunDays /\ f.date >= StartDay
     ELSE /\ f.dir = "." /\ f.ext \in {"log", "zip"}
          /\ f.date \in {StartDay - 2, StartDay - 1}}

\* the filenames of the model that the text of a base starts with
Prefixes(base) == IF base = "app2" THEN {"app", "app2"} ELSE {base}

\* a faulty startsWith that compares the whole base
startsWithBase(file, filename) == file.base = filename

\* file.startsWith(filename), for a directory entry <base>-<date>.<ext> (or
\* <base>.<ext>) and a filename of the model: the entry starts with the
\* filename when its base does; an entry holds no path separator
startsWith(file, filename) == filename \in Prefixes(file.base)

\* file.endsWith("." + ext)
endsWith(file, ext) == file.ext = ext

NoFile == [state |-> "absent", lines |-> <<>>]
LogFile(lines) == [state |-> "ok", lines |-> lines]
existsSync(d, file) == d[file].state # "absent"
\* every file there is
AllFiles(d) == {f \in DOMAIN d : existsSync(d, f)}

\* readdirSync(directory)
readdir(d, directory) == {f \in AllFiles(d) : f.dir = directory}

\* readdirSync(logDirectory)
readdirSync(d) == readdir(d, ".")

---------------------------------------------------------------------------
(* Retention cleanup *)

Null == [finite |-> FALSE, v |-> 0 - 1]

\* a < b on Date values; a comparison with an Invalid Date is false
DateLess(a, b) == a.finite /\ b.finite /\ a.v < b.v

\* now minus retentionDays days, the time of day kept; Invalid Date for NaN
calculateCutoffDate(retentionDays, t) ==
  IF isFinite(retentionDays) THEN Num(t - retentionDays.v * TicksPerDay) ELSE NaN

filterRelevantFiles(files, filename) ==
  {file \in files :
     /\ startsWith(file, filename)
     /\ (endsWith(file, "log") \/ endsWith(file, "zip")
         \/ endsWith(file, "tar.gz") \/ endsWith(file, "tar"))}

\* /-(\d{4}-\d{2}-\d{2})\.(log|zip|tar\.gz|tar)$/
extractDateFromFilename(file) ==
  IF file.date # NoDate /\ file.ext \in {"log", "zip", "tar.gz", "tar"}
  THEN Num(ParseDate(file.date))
  ELSE Null

\* unlinkSync of every file of the set
\* unlinkSync of each of the files, inside a try whose catch logs: a file
\* whose unlink throws (it is locked) stays
Unlink(d, files) ==
  [f \in DOMAIN d |-> IF f \in files /\ d[f].state # "locked" THEN NoFile ELSE d[f]]

\* a faulty processDirectoryFiles that stops after the first file it deletes
processDirectoryFilesOnePerPass(d, directory, filename, cutoffDate) ==
  LET relevantFiles == filterRelevantFiles(readdir(d, directory), filename)
      old == {file \in relevantFiles :
                /\ extractDateFromFilename(file) # Null
                /\ DateLess(extractDateFromFilename(file), cutoffDate)}
  IN IF old = {} THEN d
     ELSE Unlink(d, {CHOOSE file \in old : \A g \in old : file.date <= g.date})

processDirectoryFiles(d, directory, filename, cutoffDate) ==
  LET relevantFiles == filterRelevantFiles(readdir(d, directory), filename)
      old == {file \in relevantFiles :
                /\ extractDateFromFilename(file) # Null
                /\ DateLess(extractDateFromFilename(file), cutoffDate)}
  IN Unlink(d, old)

\* a faulty cleanup that gives up when the scan of logDirectory throws
CleanupBothAborting(d, dirState, filename, cutoffDate, archiveDirectory) ==
  IF dirState # "present" THEN d
  ELSE LET d1 == processDirectoryFiles(d, ".", filename, cutoffDate)
       IN IF archiveDirectory # "" /\ archiveDirectory # "."
          THEN processDirectoryFiles(d1, archiveDirectory, filename, cutoffDate)
          ELSE d1

\* both directories of a cleanup: logDirectory, whose readdirSync throws
\* inside the try of processDirectoryFiles when the directory cannot be read
\* (dirState), then the archive directory when one is configured, differs from
\* logDirectory and exists
CleanupBoth(d, dirState, filename, cutoffDate, archiveDirectory) ==
  LET d1 == IF dirState = "present"
            THEN processDirectoryFiles(d, ".", filename, cutoffDate)
            ELSE d
  IN IF archiveDirectory # "" /\ archiveDirectory # "."
     THEN processDirectoryFiles(d1, archiveDirectory, filename, cutoffDate)
     ELSE d1

\* cleanupOldFiles of transport.ts
cleanupOldFiles(d, dirState, filename, retentionDays, archiveDirectory, t) ==
  CleanupBoth(d, dirState, filename, calculateCutoffDate(retentionDays, t),
              archiveDirectory)

\* cleanupOldFiles of utils/file-cleanup.ts
fileCleanup_cleanupOldFiles(d, dirState, filename, retentionDays, archiveDirectory, t) ==
  IF ~isFinite(retentionDays) \/ retentionDays.v < 0
  THEN d
  ELSE CleanupBoth(d, dirState, filename, calculateCutoffDate(retentionDays, t),
                   archiveDirectory)

\* a faulty ensureLogDirectoryExists that never calls mkdirSync
ensureLogDirectoryExistsNoMkdir(dirState) == [dir |-> dirState, log |-> {}]

\* ensureLogDirectoryExists: [dir, log].  mkdirSync(recursive) creates an
\* absent directory with its parents; when it throws the catch block logs
ensureLogDirectoryExists(dirState) ==
  CASE dirState = "absent" -> [dir |-> "present", log |-> {}]
    [] dirState \in {"unusable", "invalid"} ->
         [dir |-> dirState, log |-> {"Error ensuring log directory exists"}]
    [] OTHER -> [dir |-> dirState, log |-> {}]

\* what the cleanup logs when readdirSync of the log directory throws; the
\* copy of utils/file-cleanup.ts returns before it for an invalid retentionDays
CleanupLog(dirState) ==
  IF dirState # "present"
     /\ (host.impl = "transport"
         \/ (isFinite(options.retentionDays) /\ options.retentionDays.v >= 0))
  THEN {"Error processing directory"}
  ELSE {}

\* the copy of cleanupOldFiles the sink is linked with
Cleanup(d, dirState, t) ==
  IF host.impl = "transport"
  THEN cleanupOldFiles(d, dirState, options.filename, options.retentionDays,
                       options.archiveDirectory, t)
  ELSE fileCleanup_cleanupOldFiles(d, dirState, options.filename,
                                   options.retentionDays,
                                   options.archiveDirectory, t)

---------------------------------------------------------------------------
(* Streams *)

\* createWriteStream(path, {flags: 'a'}): the file is created when absent
Touch(d, file) == IF existsSync(d, file) THEN d ELSE [d EXCEPT ![file] = LogFile(<<>>)]

\* needDrain: a write has returned false and 'drain' has not been emitted since
NewStream(date) ==
  [date |-> date, st |-> "open", errored |-> FALSE, kind |-> "file", needDrain |-> FALSE]

\* the file createWriteStream opens exists from then on, if its directory does
OpenFile(d, dirState, file) == IF dirState = "present" THEN Touch(d, file) ELSE d

\* createLogFileStream: [stream, log].  The constructor of the stream throws
\* only when it rejects its arguments itself, which for an illegal path depends
\* on whether the build validates the path inside the constructor
\* (host.syncOpen); then the catch block logs and returns the console
\* fallback.  Every other failure of the open arrives later as 'error' on the
\* file stream, which the listener logs and which leaves the stream destroyed.
createLogFileStream(dirState, date) ==
  IF dirState = "invalid" /\ host.syncOpen
  THEN [stream |-> [NewStream(date) EXCEPT !.kind = "fallback"],
        log |-> {"Error creating write stream"}]
  ELSE IF dirState # "present"
  THEN [stream |-> [NewStream(date) EXCEPT !.errored = TRUE],
        log |-> {"Error in write stream"}]
  ELSE [stream |-> NewStream(date), log |-> {}]

\* a stream the sink has not ended
IsOpen(s) == s.st = "open"

\* stream.end()
EndStream(ss, i) ==
  IF ss[i].st = "open" THEN [ss EXCEPT ![i].st = "ending"] ELSE ss

---------------------------------------------------------------------------
(* Buffer and flush.  S is the part of the state a flush reads and writes:
   [disk, streams, buffer, flushTimer, timers, dropped, written, console]. *)

Sink == [disk |-> disk, streams |-> streams, buffer |-> buffer,
         flushTimer |-> flushTimer, timers |-> timers,
         dropped |-> dropped, written |-> written,
         console |-> fallbackOut]

Range(q) == {q[k] : k \in 1 .. Len(q)}

\* does stream.write(data) return false?  It does when the data brings the
\* stream's queue to its highWaterMark, and as long as the queue has not
\* drained since
writeReturnsFalse(s, data) == s.needDrain \/ Len(data) >= host.highWaterMark

\* stream.write(data) on streams[i]: an open fallback stream prints the data
\* with console.log; the data reaches the file of a healthy open
\* stream; a write after end() or on an errored stream fails, the stream's
\* 'error' listener logs it, and the stream is destroyed
streamWrite(S, i, data) ==
  LET s == S.streams[i]
      file == logName(options.filename, s.date)
  IN IF s.kind = "fallback" /\ s.st = "open"
     THEN [S EXCEPT !.console = @ \cup Range(data),
                    !.streams[i].needDrain = writeReturnsFalse(s, data)]
     ELSE IF s.st = "open" /\ ~s.errored
     THEN [S EXCEPT !.disk = [Touch(S.disk, file) EXCEPT
                                ![file].lines = Touch(S.disk, file)[file].lines \o data],
                    !.written = @ \cup {[id |-> x, date |-> s.date] : x \in Range(data)},
                    !.streams[i].needDrain = writeReturnsFalse(s, data)]
     ELSE [S EXCEPT !.dropped = @ \cup Range(data), !.streams[i].errored = TRUE]

\* faulty variant of flushBuffer: the written batch stays in the buffer
flushBufferKeeping(S, i) ==
  IF Len(S.buffer) > 0 THEN streamWrite(S, i, S.buffer) ELSE S

\* faulty variant of flushBuffer: a batch whose write failed stays in the
\* buffer, for the next flush to write again
flushBufferRetrying(S, i) ==
  LET S1 == streamWrite(S, i, S.buffer)
  IN IF Len(S.buffer) > 0
     THEN IF S1.dropped # S.dropped THEN S1 ELSE [S1 EXCEPT !.buffer = <<>>]
     ELSE [S EXCEPT !.buffer = <<>>]

\* flushBuffer(buffer, stream), whose result [] the caller assigns to buffer
flushBuffer(S, i) ==
  IF Len(S.buffer) > 0
  THEN [streamWrite(S, i, S.buffer) EXCEPT !.buffer = <<>>]
  ELSE [S EXCEPT !.buffer = <<>>]

\* clearTimeout(timer): the timeout the variable holds is pending no longer
clearTimeout(S) == [S EXCEPT !.timers = IF S.flushTimer THEN @ - 1 ELSE @]

\* setTimeout(...): one more timeout is pending
setTimeout(S) == [S EXCEPT !.timers = @ + 1]

\* faulty variant of handleFlushBuffer: the timer is left as it is
handleFlushBufferKeepingTimer(S, i) == flushBuffer(S, i)

\* handleFlushBuffer: flush, then `if (flushTimer) { clearTimeout; flushTimer = null }`
handleFlushBuffer(S, i) ==
  [clearTimeout(flushBuffer(S, i)) EXCEPT !.flushTimer = FALSE]

\* faulty variant of handleScheduleFlush: no timer is armed
handleScheduleFlushNever(S) == S

\* faulty variant of handleScheduleFlush: the timer is armed without a
\* clearTimeout of the one before
handleScheduleFlushStacking(S) == [setTimeout(S) EXCEPT !.flushTimer = TRUE]

\* scheduleFlush: `if (flushTimer) clearTimeout(flushTimer)`, then setTimeout,
\* whose timer the caller assigns to flushTimer
handleScheduleFlush(S) == [setTimeout(clearTimeout(S)) EXCEPT !.flushTimer = TRUE]

\* faulty variant of AppendRecord: the flush waits for one record more
AppendRecordLate(S, i, id) ==
  LET S1 == [S EXCEPT !.buffer = Append(@, id)]
  IN IF Len(S1.buffer) > options.bufferSize
     THEN handleFlushBuffer(S1, i)
     ELSE handleScheduleFlush(S1)

\* buffer.push(JSON.stringify(obj) + '\n'), then flush or schedule
AppendRecord(S, i, id) ==
  LET S1 == [S EXCEPT !.buffer = Append(@, id)]
  IN IF Len(S1.buffer) >= options.bufferSize
     THEN handleFlushBuffer(S1, i)
     ELSE handleScheduleFlush(S1)

Commit(S) ==
  /\ disk' = S.disk
  /\ streams' = S.streams
  /\ buffer' = S.buffer
  /\ flushTimer' = S.flushTimer
  /\ timers' = S.timers
  /\ dropped' = S.dropped
  /\ written' = S.written
  /\ fallbackOut' = S.console

---------------------------------------------------------------------------
(* Archive pass *)

\* directory order: <base>-<date>.log by date, then <base>.log
RECURSIVE SortByDate(_)
SortByDate(files) ==
  IF files = {} THEN <<>>
  ELSE LET key(f) == IF f.date = NoDate THEN 1 + StartDay + MaxTicks ELSE f.date
           first == CHOOSE f \in files : \A g \in files : key(f) <= key(g)
       IN <<first>> \o SortByDate(files \ {first})

\* the files archiveLogFiles selects, in directory order
\* faulty variant of archiveLogFiles: a pass takes the oldest file only
archiveLogFilesOldestOnly(d, filename, currentDate) ==
  LET files == SortByDate({file \in readdirSync(d) :
                             /\ startsWith(file, filename)
                             /\ endsWith(file, "log")
                             /\ file # logName(filename, currentDate)})
  IN IF files = <<>> THEN files ELSE <<Head(files)>>

archiveLogFiles(d, filename, currentDate) ==
  SortByDate({file \in readdirSync(d) :
                /\ startsWith(file, filename)
                /\ endsWith(file, "log")
                /\ file # logName(filename, currentDate)})

\* archiveSingleLogFile up to its await: createWriteStream(archivePath) truncates
\* or creates the container, the archiver starts to fill it
StartArchive(d, logFile) ==
  [d EXCEPT ![archiveName(logFile, options.archiveFormat)] =
     [state |-> "writing", lines |-> <<>>]]

\* archiveSingleLogFile of transport.ts after `await archive.finalize()`: the
\* archiver has handed all its data to the output stream, which has not yet
\* confirmed the write; the source is unlinked.  A rejected finalize is logged.
archiveSingleLogFile(d, logFile, ok) ==
  LET arch == archiveName(logFile, options.archiveFormat)
  IN IF ok
     THEN [Unlink(d, {logFile}) EXCEPT
             ![arch] = [state |-> "flushing", lines |-> d[logFile].lines]]
     ELSE [d EXCEPT ![arch].state = "failed"]

\* archiveSingleLogFile of utils/archiver.ts after the race of errorPromise with
\* finalize() followed by outputFinished: the source is unlinked once the
\* output stream has finished; an error is logged and the source is kept
archiver_archiveSingleLogFile(d, logFile, ok) ==
  LET arch == archiveName(logFile, options.archiveFormat)
  IN IF ok
     THEN [Unlink(d, {logFile}) EXCEPT
             ![arch] = [state |-> "ok", lines |-> d[logFile].lines]]
     ELSE [d EXCEPT ![arch].state = "failed"]

FinishArchive(d, logFile, ok) ==
  IF host.impl = "transport"
  THEN archiveSingleLogFile(d, logFile, ok)
  ELSE archiver_archiveSingleLogFile(d, logFile, ok)

\* an archiveFormat 'none' that keeps the files in every copy
ArchiveNoneKeeping(d, files) == d

\* an archiveFormat 'none' that unlinks the files in every copy
ArchiveNoneDeleting(d, files) == Unlink(d, Range(files))

\* archiveFormat 'none': transport.ts (and the earlier utils/archiver.ts)
\* unlinks every selected file, the latest utils/archiver.ts returns and keeps it
ArchiveNone(d, files) ==
  IF host.impl = "transport" THEN Unlink(d, Range(files)) ELSE d

\* does the pass over `files` run to its end without an await on I/O?
PassIsSync(files) == files = <<>> \/ options.archiveFormat = "none"

\* the disk when a pass over `files` has run up to its first await on I/O
BeginPass(d, files) ==
  IF files = <<>> THEN d
  ELSE IF options.archiveFormat = "none" THEN ArchiveNone(d, files)
  ELSE StartArchive(d, Head(files))

---------------------------------------------------------------------------
(* Initial states: the options, the host and the log directory the sink is
   constructed with *)

RetentionValues == {Num(0 - 1), Num(0), Num(1), NaN}
ArchiveFormats == {"zip", "none"}

\* the formats that write a container
ContainerFormats == {"zip", "gzip", "tar"}

\* the options vary one concern at a time: the level, the retention, the
\* archive pass
LevelOptions ==
  [filename : {"app"}, archiveDirectory : {""}, level : Levels, bufferSize : {1},
   retentionDays : {Num(1)}, archiveFormat : {"zip"},
   cleanupOnRotation : {TRUE}, archiveOnRotation : {FALSE}]

RetentionOptions ==
  [filename : {"app"}, archiveDirectory : {""}, level : {"info"}, bufferSize : {2},
   retentionDays : RetentionValues, archiveFormat : {"zip"},
   cleanupOnRotation : {TRUE}, archiveOnRotation : {FALSE}]

ArchiveOptions ==
  [filename : {"app"}, archiveDirectory : {""}, level : {"info"}, bufferSize : {2},
   retentionDays : {Num(1)}, archiveFormat : ArchiveFormats,
   cleanupOnRotation : BOOLEAN, archiveOnRotation : BOOLEAN]

\* the options of the runs in a directory that is not there
DirectoryOptions ==
  [filename : {"app"}, archiveDirectory : {""}, level : {"info"}, bufferSize : {1, 2},
   retentionDays : {Num(1)}, archiveFormat : {"zip"},
   cleanupOnRotation : {TRUE}, archiveOnRotation : {FALSE}]

\* the options of the runs in a directory with an undated log
UndatedOptions ==
  {o \in ArchiveOptions : o.cleanupOnRotation /\ ~o.archiveOnRotation}

\* the options of the runs that vary the names on disk: the container format
\* and the directory of the containers
NamingOptions ==
  [filename : {"app"}, archiveDirectory : {"", "archive"}, level : {"info"},
   bufferSize : {2}, retentionDays : {Num(1)}, archiveFormat : ContainerFormats,
   cleanupOnRotation : {TRUE}, archiveOnRotation : {FALSE}]

\* the options of the runs with a filename that holds a path separator
PathOptions ==
  [filename : {"../app"}, archiveDirectory : {""}, level : {"info"},
   bufferSize : {1}, retentionDays : {Num(1)}, archiveFormat : {"zip"},
   cleanupOnRotation : {TRUE}, archiveOnRotation : {FALSE}]

Options == LevelOptions \cup RetentionOptions \cup ArchiveOptions

\* a highWaterMark, in records, that no batch of a run reaches
NoBackpressure == MaxRecords + 1

Hosts ==
  [tz : {0}, impl : {"transport", "utils"}, syncOpen : {FALSE},
   highWaterMark : {NoBackpressure}]

\* both outcomes of opening an illegal path
AnyHosts ==
  [tz : {0}, impl : {"transport", "utils"}, syncOpen : BOOLEAN,
   highWaterMark : {NoBackpressure}]

\* the hosts whose destination fills: a batch of one or of two records
\* brings the queue of a stream to its highWaterMark
DrainHosts ==
  [tz : {0}, impl : {"transport", "utils"}, syncOpen : {FALSE},
   highWaterMark : {1, 2}]

\* what an earlier run wrote: its lines are numbered 0
OldLines == <<0>>

\* the log files earlier runs may have left behind
LeftBehind == {logName("app", StartDay - d) : d \in 0 .. 2}

\* the directory is empty, holds yesterday's log, or all of them
InitialFiles == {{}, {logName("app", StartDay - 1)}, LeftBehind}

\* yesterday's log next to a log of the base that carries no date
WithUndated == {logName("app", StartDay - 1), Undated("app", "log")}

\* the sink's configuration and the directory it finds
\* the configurations the liveness of the sink is checked on: every option
\* family on the directories of earlier runs, and the directories that are
\* not there
LiveConfigs ==
  [options : Options, host : Hosts, dir : {"present"}, files : InitialFiles]
  \cup
  [options : DirectoryOptions, host : Hosts, dir : {"absent", "unusable"}, files : {{}}]
  \cup
  [options : DirectoryOptions, host : AnyHosts, dir : {"invalid"}, files : {{}}]

Configs ==
  LiveConfigs
  \cup
  [options : UndatedOptions, host : Hosts, dir : {"present"}, files : {WithUndated}]
  \cup
  [options : NamingOptions \cup PathOptions, host : Hosts, dir : {"present"},
   files : {{logName("app", StartDay - 1)}}]

DiskWith(files) == [f \in Names |-> IF f \in files THEN LogFile(OldLines) ELSE NoFile]

NoObj == [id |-> 0, date |-> NoDate]

\* a sink that has not been constructed
Fresh ==
  /\ streams = <<>>
  /\ stream = 0
  /\ lastDate = NoDate
  /\ buffer = <<>>
  /\ flushTimer = FALSE
  /\ timers = 0
  /\ pc = "new"
  /\ obj = NoObj
  /\ nRead = 0
  /\ closePc = "idle"
  /\ closeWait = 0
  /\ rotArch = <<>>
  /\ closeArch = <<>>
  /\ closeDate = NoDate
  /\ archiveFailed = FALSE
  /\ fallbackOut = {}
  /\ startupLog = {}
  /\ dropped = {}
  /\ written = {}
  /\ accepted = <<>>
  /\ atClose = {}

\* the state before fileTransport is called with a configuration of the set
InitOf(configs) ==
  /\ \E c \in configs :
       /\ options = c.options
       /\ host = c.host
       /\ disk = DiskWith(c.files)
       /\ logDirectory = c.dir
  /\ now \in FirstTick .. (FirstTick + TicksPerDay - 1)
  /\ Fresh

Init == InitOf(Configs)

\* the runs against a destination that reports backpressure
DrainConfigs ==
  [options : ArchiveOptions \cup DirectoryOptions, host : DrainHosts,
   dir : {"present"}, files : {{logName("app", StartDay - 1)}}]

DrainInit == InitOf(DrainConfigs)

\* the logs another program has left in the directory under a base that the
\* sink's filename is a prefix of
OtherBaseFiles == {logName("app2", StartDay - d) : d \in 1 .. 2}

\* the runs in a directory shared with the files of that base
OtherBaseConfigs ==
  [options : ArchiveOptions, host : Hosts, dir : {"present"},
   files : {OtherBaseFiles, OtherBaseFiles \cup {logName("app", StartDay - 1)}}]

OtherBaseInit == InitOf(OtherBaseConfigs)

\* the runs whose buffer takes more records than a run reads, so that a record
\* is appended while the timer of the record before is pending
TimerConfigs ==
  [options : {[o EXCEPT !.bufferSize = MaxRecords + 1] : o \in ArchiveOptions},
   host : Hosts, dir : {"present"}, files : {{logName("app", StartDay - 1)}}]

TimerInit == InitOf(TimerConfigs)

LiveInit == InitOf(LiveConfigs)


---------------------------------------------------------------------------
(* Continuations that run as microtasks, before any timer, I/O event or
   further record: what awaited 'finish', in the order the listeners were
   registered (the rotation's before close()'s), and a rotation resuming from
   an archive pass that awaited no I/O *)

\* faulty variant of RotationReady: the rotation does not wait for 'finish'
RotationReadyAtOnce == pc = "rotEnd"

RotationReady == pc = "rotEnd" /\ streams[stream].st = "finished"
CloseReady == closePc = "waitFinish" /\ streams[closeWait].st = "finished"
ResumeReady == pc = "rotArchive" /\ rotArch = <<>>
Ready == RotationReady \/ CloseReady \/ ResumeReady

---------------------------------------------------------------------------
(* Actions *)

\* fileTransport(options) up to `return build(...)`
fileTransport ==
  /\ pc = "new"
  /\ LET currentDate == getCurrentDate(now)
         made == ensureLogDirectoryExists(logDirectory)
         opened == createLogFileStream(made.dir, currentDate)
     IN /\ logDirectory' = made.dir
        /\ disk' = OpenFile(Cleanup(disk, made.dir, now), made.dir,
                            logName(options.filename, currentDate))
        /\ streams' = <<opened.stream>>
        /\ stream' = 1
        /\ lastDate' = currentDate
        /\ startupLog' = made.log \cup CleanupLog(made.dir) \cup opened.log
  /\ pc' = "next"
  /\ UNCHANGED <<options, host, now, buffer, flushTimer, timers, obj, nRead, closePc,
                 closeWait, rotArch, closeArch, closeDate, dropped, fallbackOut,
                 written, accepted, atClose, archiveFailed>>

\* the clock advances
Tick ==
  /\ pc # "new"
  /\ ~Ready
  /\ now < LastTick
  /\ now' = now + 1
  /\ UNCHANGED <<options, host, disk, streams, stream, lastDate, buffer, flushTimer, timers,
                 pc, obj, nRead, closePc, closeWait, rotArch, closeArch, closeDate, dropped, fallbackOut,
                 written, accepted, atClose>>
  /\ UNCHANGED <<archiveFailed, logDirectory, startupLog>>

\* the end of rotateLogFile and of the loop body: the new stream, lastDate,
\* the record appended.  If the source was destroyed meanwhile the loop ends:
\* with its last flush if the iterator returns (graceful), without it if the
\* iterator throws
FinishRotation(d, graceful) ==
  LET ss == Append(streams, createLogFileStream(logDirectory, obj.date).stream)
      i == Len(ss)
      S0 == [Sink EXCEPT !.disk = OpenFile(d, logDirectory,
                                           logName(options.filename, obj.date)),
                         !.streams = ss]
      S1 == AppendRecord(S0, i, obj.id)
      S2 == IF closePc # "idle" /\ graceful THEN handleFlushBuffer(S1, i) ELSE S1
  IN /\ Commit(S2)
     /\ stream' = i
     /\ lastDate' = obj.date
     /\ pc' = IF closePc # "idle" THEN "ended" ELSE "next"
     /\ obj' = NoObj
     /\ rotArch' = <<>>

\* faulty variant of IngestRecord: the date is compared before the level, so
\* that a record read on a new date rotates the file whatever its level
IngestRecordDateFirst(objLevel) ==
  /\ pc = "next"
  /\ closePc = "idle"
  /\ ~Ready
  /\ nRead < MaxRecords
  /\ nRead' = nRead + 1
  /\ LET currentDate == getCurrentDate(now)
     IN IF currentDate # lastDate
        THEN LET S1 == handleFlushBuffer(Sink, stream)
             IN /\ accepted' = Append(accepted, currentDate)
                /\ Commit([S1 EXCEPT !.streams = EndStream(S1.streams, stream)])
                /\ pc' = "rotEnd"
                /\ obj' = [id |-> nRead + 1, date |-> currentDate]
        ELSE IF ~shouldWriteLog(objLevel, options.level)
        THEN /\ accepted' = Append(accepted, NoDate)
             /\ UNCHANGED <<disk, streams, buffer, flushTimer, timers, dropped, fallbackOut,
                            written, pc, obj>>
        ELSE /\ accepted' = Append(accepted, currentDate)
             /\ Commit(AppendRecord(Sink, stream, nRead + 1))
             /\ UNCHANGED <<pc, obj>>
  /\ UNCHANGED <<options, host, now, stream, lastDate, closePc, closeWait,
                 rotArch, closeArch, closeDate, atClose>>
  /\ UNCHANGED <<archiveFailed, logDirectory, startupLog>>

\* one pass of the ingest loop over a record of Pino level objLevel, up to
\* the first await
IngestRecord(objLevel) ==
  /\ pc = "next"
  /\ closePc = "idle"
  /\ ~Ready
  /\ nRead < MaxRecords
  /\ nRead' = nRead + 1
  /\ IF ~shouldWriteLog(objLevel, options.level)
     THEN /\ accepted' = Append(accepted, NoDate)
          /\ UNCHANGED <<disk, streams, buffer, flushTimer, timers, dropped, fallbackOut, written, pc, obj>>
     ELSE LET currentDate == getCurrentDate(now)
          IN /\ accepted' = Append(accepted, currentDate)
             /\ IF currentDate # lastDate
                THEN LET S1 == handleFlushBuffer(Sink, stream)
                     IN /\ Commit([S1 EXCEPT !.streams = EndStream(S1.streams, stream)])
                        /\ pc' = "rotEnd"
                        /\ obj' = [id |-> nRead + 1, date |-> currentDate]
                ELSE /\ Commit(AppendRecord(Sink, stream, nRead + 1))
                     /\ UNCHANGED <<pc, obj>>
  /\ UNCHANGED <<options, host, now, stream, lastDate, closePc, closeWait,
                 rotArch, closeArch, closeDate, atClose>>
  /\ UNCHANGED <<archiveFailed, logDirectory, startupLog>>

\* faulty variant of RotateAfterFinish: both passes run whatever the flags
RotateAfterFinishAlways(graceful) ==
  /\ RotationReady
  /\ LET d1 == Cleanup(disk, logDirectory, now)
         files == archiveLogFiles(d1, options.filename, obj.date)
     IN /\ disk' = BeginPass(d1, files)
        /\ rotArch' = IF PassIsSync(files) THEN <<>> ELSE files
        /\ pc' = "rotArchive"
        /\ UNCHANGED <<streams, stream, lastDate, buffer, flushTimer, timers, obj,
                       dropped, fallbackOut, written>>
  /\ UNCHANGED <<options, host, now, nRead, closePc, closeWait, closeArch, closeDate,
                 accepted, atClose>>
  /\ UNCHANGED <<archiveFailed, logDirectory, startupLog>>

\* rotateLogFile resumes after 'finish' of the old stream
RotateAfterFinish(graceful) ==
  /\ RotationReady
  /\ LET d1 == IF options.cleanupOnRotation THEN Cleanup(disk, logDirectory, now) ELSE disk
         files == archiveLogFiles(d1, options.filename, obj.date)
     IN IF options.archiveOnRotation
        THEN /\ disk' = BeginPass(d1, files)
             /\ rotArch' = IF PassIsSync(files) THEN <<>> ELSE files
             /\ pc' = "rotArchive"
             /\ UNCHANGED <<streams, stream, lastDate, buffer, flushTimer, timers, obj,
                            dropped, fallbackOut, written>>
        ELSE FinishRotation(d1, graceful)
  /\ UNCHANGED <<options, host, now, nRead, closePc, closeWait, closeArch, closeDate,
                 accepted, atClose>>
  /\ UNCHANGED <<archiveFailed, logDirectory, startupLog>>

\* the rotation resumes from an archive pass that awaited no I/O
RotationResumes(graceful) ==
  /\ ResumeReady
  /\ ~RotationReady /\ ~CloseReady
  /\ FinishRotation(disk, graceful)
  /\ UNCHANGED <<options, host, now, nRead, closePc, closeWait, closeArch, closeDate,
                 accepted, atClose>>
  /\ UNCHANGED <<archiveFailed, logDirectory, startupLog>>

\* the archiver of the rotation's pass settles for the file in progress
RotationArchiveStep(ok, graceful) ==
  /\ pc = "rotArchive"
  /\ rotArch # <<>>
  /\ ~Ready
  /\ LET d1 == FinishArchive(disk, Head(rotArch), ok)
         rest == Tail(rotArch)
     IN IF rest = <<>>
        THEN FinishRotation(d1, graceful)
        ELSE /\ disk' = StartArchive(d1, Head(rest))
             /\ rotArch' = rest
             /\ UNCHANGED <<streams, stream, lastDate, buffer, flushTimer, timers, pc, obj,
                            dropped, fallbackOut, written>>
  /\ UNCHANGED <<options, host, now, nRead, closePc, closeWait, closeArch, closeDate,
                 accepted, atClose>>
  /\ archiveFailed' = (archiveFailed \/ ~ok)
  /\ UNCHANGED <<logDirectory, startupLog>>

\* the flush timer fires: a pending timeout runs its callback,
\* handleFlushBuffer, whose clearTimeout of the timer that has just fired has
\* no effect
FlushTimerFires ==
  /\ timers > 0
  /\ ~Ready
  /\ Commit(handleFlushBuffer([Sink EXCEPT !.timers = @ - 1, !.flushTimer = FALSE],
                              stream))
  /\ UNCHANGED <<options, host, now, stream, lastDate, pc, obj, nRead, closePc,
                 closeWait, rotArch, closeArch, closeDate, accepted, atClose>>
  /\ UNCHANGED <<archiveFailed, logDirectory, startupLog>>

\* close() up to its await of 'finish'; an idle ingest loop ends with it
close ==
  /\ pc # "new"
  /\ closePc = "idle"
  /\ ~Ready
  /\ LET S1 == handleFlushBuffer(Sink, stream)
     IN /\ Commit([S1 EXCEPT !.streams = EndStream(S1.streams, stream)])
        /\ closePc' = IF S1.streams[stream].st = "finished" THEN "hung" ELSE "waitFinish"
  /\ closeWait' = stream
  /\ atClose' = Range(buffer)
  /\ pc' = IF pc = "next" THEN "ended" ELSE pc
  /\ UNCHANGED <<options, host, now, stream, lastDate, obj, nRead, rotArch, closeArch, closeDate,
                 accepted>>
  /\ UNCHANGED <<archiveFailed, logDirectory, startupLog>>

\* close() resumes after 'finish': the archive pass up to its first await
CloseAfterFinish ==
  /\ CloseReady
  /\ ~RotationReady
  /\ LET files == archiveLogFiles(disk, options.filename, getCurrentDate(now))
     IN /\ disk' = BeginPass(disk, files)
        /\ closeArch' = IF PassIsSync(files) THEN <<>> ELSE files
        /\ closePc' = IF PassIsSync(files) THEN "done" ELSE "archive"
  /\ closeDate' = getCurrentDate(now)
  /\ UNCHANGED <<options, host, now, streams, stream, lastDate, buffer, flushTimer, timers,
                 pc, obj, nRead, closeWait, rotArch, dropped, fallbackOut, written, accepted, atClose>>
  /\ UNCHANGED <<archiveFailed, logDirectory, startupLog>>

\* the archiver of close()'s pass settles for the file in progress
CloseArchiveStep(ok) ==
  /\ closePc = "archive"
  /\ closeArch # <<>>
  /\ ~Ready
  /\ LET d1 == FinishArchive(disk, Head(closeArch), ok)
         rest == Tail(closeArch)
     IN /\ disk' = IF rest = <<>> THEN d1 ELSE StartArchive(d1, Head(rest))
        /\ closeArch' = rest
        /\ closePc' = IF rest = <<>> THEN "done" ELSE "archive"
  /\ UNCHANGED <<closeDate, options, host, now, streams, stream, lastDate, buffer, flushTimer, timers,
                 pc, obj, nRead, closeWait, rotArch, dropped, fallbackOut, written, accepted, atClose>>
  /\ archiveFailed' = (archiveFailed \/ ~ok)
  /\ UNCHANGED <<logDirectory, startupLog>>

\* streams[i] emits 'finish': everything written before end() is in the file
StreamFinish(i) ==
  /\ streams[i].st = "ending"
  /\ ~streams[i].errored
  /\ ~Ready
  /\ streams' = [streams EXCEPT ![i].st = "finished"]
  /\ UNCHANGED <<options, host, now, disk, stream, lastDate, buffer, flushTimer, timers,
                 pc, obj, nRead, closePc, closeWait, rotArch, closeArch, closeDate, dropped, fallbackOut,
                 written, accepted, atClose>>
  /\ UNCHANGED <<archiveFailed, logDirectory, startupLog>>

\* streams[i] emits 'error' (the open or a write failed): it is destroyed
StreamError(i) ==
  /\ streams[i].kind = "file"
  /\ streams[i].st # "finished"
  /\ ~streams[i].errored
  /\ ~Ready
  /\ streams' = [streams EXCEPT ![i].errored = TRUE]
  /\ UNCHANGED <<options, host, now, disk, stream, lastDate, buffer, flushTimer, timers,
                 pc, obj, nRead, closePc, closeWait, rotArch, closeArch, closeDate, dropped, fallbackOut,
                 written, accepted, atClose>>
  /\ UNCHANGED <<archiveFailed, logDirectory, startupLog>>

\* the output stream of a container whose source transport.ts has already
\* unlinked ends: the container is complete, or the write failed
OutputSettles(file, ok) ==
  /\ disk[file].state = "flushing"
  /\ ~Ready
  /\ disk' = [disk EXCEPT ![file].state = IF ok THEN "ok" ELSE "failed"]
  /\ UNCHANGED <<options, host, now, streams, stream, lastDate, buffer, flushTimer, timers,
                 pc, obj, nRead, closePc, closeWait, rotArch, closeArch, closeDate, dropped, fallbackOut,
                 written, accepted, atClose>>
  /\ archiveFailed' = (archiveFailed \/ ~ok)
  /\ UNCHANGED <<logDirectory, startupLog>>

Next ==
  \/ fileTransport
  \/ Tick
  \/ \E objLevel \in PinoLevels : IngestRecord(objLevel)
  \/ \E graceful \in BOOLEAN : RotateAfterFinish(graceful)
  \/ \E graceful \in BOOLEAN : RotationResumes(graceful)
  \/ \E ok \in BOOLEAN, graceful \in BOOLEAN : RotationArchiveStep(ok, graceful)
  \/ FlushTimerFires
  \/ close
  \/ CloseAfterFinish
  \/ \E ok \in BOOLEAN : CloseArchiveStep(ok)
  \/ \E i \in 1 .. Len(streams) : StreamFinish(i)
  \/ \E i \in 1 .. Len(streams) : StreamError(i)
  \/ \E file \in Names, ok \in BOOLEAN : OutputSettles(file, ok)

Spec == Init /\ [][Next]_vars

\* the clock advances in a run that lasts a day longer: long enough for a
\* rotation to start late in a day and to resume on the next
LateTick ==
  /\ pc # "new"
  /\ ~Ready
  /\ now >= LastTick /\ now < LongLastTick
  /\ now' = now + 1
  /\ UNCHANGED <<options, host, disk, streams, stream, lastDate, buffer, flushTimer, timers,
                 pc, obj, nRead, closePc, closeWait, rotArch, closeArch, closeDate, dropped, fallbackOut,
                 written, accepted, atClose>>
  /\ UNCHANGED <<archiveFailed, logDirectory, startupLog>>

LongNext == Next \/ LateTick

\* streams[i] emits 'drain': its queue has emptied after a write that
\* returned false.  A stream on which end() was called emits no 'drain'.
StreamDrain(i) ==
  /\ streams[i].needDrain
  /\ streams[i].st = "open" /\ ~streams[i].errored
  /\ ~Ready
  /\ streams' = [streams EXCEPT ![i].needDrain = FALSE]
  /\ UNCHANGED <<options, host, now, disk, stream, lastDate, buffer, flushTimer, timers,
                 pc, obj, nRead, closePc, closeWait, rotArch, closeArch, closeDate, dropped, fallbackOut,
                 written, accepted, atClose>>
  /\ UNCHANGED <<archiveFailed, logDirectory, startupLog>>

TimerSpec == TimerInit /\ [][Next]_vars

DrainNext == Next \/ \E i \in DOMAIN streams : StreamDrain(i)

DrainSpec == DrainInit /\ [][DrainNext]_vars

LongSpec == Init /\ [][LongNext]_vars

OtherBaseSpec == OtherBaseInit /\ [][Next]_vars

\* obj.level of the records that carry no level of Pino: 0 for a field that
\* is missing or zero, a number below, between and above Pino's
UnknownLevels == {0, 5, 35, 70}

\* the runs over such records, under every minimum level: without a pass at
\* the rotation, and with the archive pass of either format
UnknownLevelOptions ==
  LevelOptions \cup
  {[o EXCEPT !.bufferSize = 2, !.archiveOnRotation = TRUE, !.archiveFormat = f] :
     o \in LevelOptions, f \in ArchiveFormats}

UnknownLevelConfigs ==
  [options : UnknownLevelOptions, host : Hosts, dir : {"present"}, files : {{}}]

UnknownLevelInit == InitOf(UnknownLevelConfigs)

UnknownLevelNext ==
  \/ fileTransport
  \/ Tick
  \/ \E objLevel \in UnknownLevels : IngestRecord(objLevel)
  \/ \E graceful \in BOOLEAN : RotateAfterFinish(graceful)
  \/ \E graceful \in BOOLEAN : RotationResumes(graceful)
  \/ \E ok \in BOOLEAN, graceful \in BOOLEAN : RotationArchiveStep(ok, graceful)
  \/ FlushTimerFires
  \/ close
  \/ CloseAfterFinish
  \/ \E ok \in BOOLEAN : CloseArchiveStep(ok)
  \/ \E i \in 1 .. Len(streams) : StreamFinish(i)
  \/ \E i \in 1 .. Len(streams) : StreamError(i)
  \/ \E file \in Names, ok \in BOOLEAN : OutputSettles(file, ok)

UnknownLevelSpec == UnknownLevelInit /\ [][UnknownLevelNext]_vars

---------------------------------------------------------------------------
(* Runs under a wall clock that is also set back, over records that carry a
   timestamp of their own *)

\* the earliest time the clock is set back to: the start of the day before
\* the sink is constructed
ClockFloor == FirstTick - TicksPerDay

\* obj.time of the records: a time of each day of a run and of the day before
Stamps == {ParseDate(d) : d \in {d \in RunDays : d <= LastTick \div TicksPerDay}}

\* faulty variant of StampedRecord: the date of a record is the date of its
\* timestamp
StampedRecordByTime(objLevel, objTime) ==
  /\ pc = "next"
  /\ closePc = "idle"
  /\ ~Ready
  /\ nRead < MaxRecords
  /\ nRead' = nRead + 1
  /\ IF ~shouldWriteLog(objLevel, options.level)
     THEN /\ accepted' = Append(accepted, NoDate)
          /\ UNCHANGED <<disk, streams, buffer, flushTimer, timers, dropped, fallbackOut, written, pc, obj>>
     ELSE LET currentDate == getCurrentDate(objTime)
          IN /\ accepted' = Append(accepted, currentDate)
             /\ IF currentDate # lastDate
                THEN LET S1 == handleFlushBuffer(Sink, stream)
                     IN /\ Commit([S1 EXCEPT !.streams = EndStream(S1.streams, stream)])
                        /\ pc' = "rotEnd"
                        /\ obj' = [id |-> nRead + 1, date |-> currentDate]
                ELSE /\ Commit(AppendRecord(Sink, stream, nRead + 1))
                     /\ UNCHANGED <<pc, obj>>
  /\ UNCHANGED <<options, host, now, stream, lastDate, closePc, closeWait,
                 rotArch, closeArch, closeDate, atClose>>
  /\ UNCHANGED <<archiveFailed, logDirectory, startupLog>>

\* one pass of the ingest loop over a record {level: objLevel, time: objTime}:
\* the loop reads obj.level in shouldWriteLog and the clock in getCurrentDate,
\* and no other field of the record
StampedRecord(objLevel, objTime) == IngestRecord(objLevel)

\* the wall clock is set back (by its owner, or by a time synchronisation)
ClockSetBack ==
  /\ pc # "new"
  /\ ~Ready
  /\ \E t \in ClockFloor .. (now - 1) : now' = t
  /\ UNCHANGED <<options, host, disk, streams, stream, lastDate, buffer, flushTimer, timers,
                 pc, obj, nRead, closePc, closeWait, rotArch, closeArch, closeDate, dropped, fallbackOut,
                 written, accepted, atClose>>
  /\ UNCHANGED <<archiveFailed, logDirectory, startupLog>>

ClockNext ==
  \/ fileTransport
  \/ Tick
  \/ ClockSetBack
  \/ \E objLevel \in PinoLevels, objTime \in Stamps : StampedRecord(objLevel, objTime)
  \/ \E graceful \in BOOLEAN : RotateAfterFinish(graceful)
  \/ \E graceful \in BOOLEAN : RotationResumes(graceful)
  \/ \E ok \in BOOLEAN, graceful \in BOOLEAN : RotationArchiveStep(ok, graceful)
  \/ FlushTimerFires
  \/ close
  \/ CloseAfterFinish
  \/ \E ok \in BOOLEAN : CloseArchiveStep(ok)
  \/ \E i \in 1 .. Len(streams) : StreamFinish(i)
  \/ \E i \in 1 .. Len(streams) : StreamError(i)
  \/ \E file \in Names, ok \in BOOLEAN : OutputSettles(file, ok)

\* the runs under that clock: every combination of the passes of a rotation,
\* in a directory that holds yesterday's log
ClockConfigs ==
  [options : ArchiveOptions, host : Hosts, dir : {"present"},
   files : {{logName("app", StartDay - 1)}}]

ClockInit == InitOf(ClockConfigs)

ClockSpec == ClockInit /\ [][ClockNext]_vars

---------------------------------------------------------------------------
(* The cleanup pass on its own: cleanupOldFiles applied, and applied again,
   to any content of the log directory *)

\* the files a cleanup is tried on: the dated logs of logDirectory, an undated
\* log, and the zip containers of the run days in both directories
CleanupNames ==
  {f \in Names : /\ f.base = "app"
                 /\ \/ f.dir = "." /\ f.ext = "log"
                    \/ f.dir \in {".", "archive"} /\ f.ext = "zip"
                         /\ f.date \in RunDays /\ f.date < StartDay + 1}

\* every retentionDays, with an archive directory of its own
CleanupOptions == {[o EXCEPT !.archiveDirectory = "archive"] : o \in RetentionOptions}

CleanupInit ==
  /\ options \in CleanupOptions
  /\ host \in Hosts
  /\ logDirectory = "present"
  /\ disk \in {DiskWith(files) : files \in SUBSET CleanupNames}
  /\ now \in FirstTick .. (FirstTick + TicksPerDay - 1)
  /\ Fresh

\* cleanupOldFiles(logDirectory, filename, retentionDays)
CleanupPass ==
  /\ pc = "new"
  /\ disk' = Cleanup(disk, logDirectory, now)
  /\ pc' = "cleaned"
  /\ UNCHANGED <<options, host, now, streams, stream, lastDate, buffer, flushTimer, timers,
                 obj, nRead, closePc, closeWait, rotArch, closeArch, closeDate,
                 dropped, written, accepted, atClose, archiveFailed, logDirectory,
                 fallbackOut, startupLog>>

\* the same call once more, at the same time
CleanupAgain ==
  /\ pc = "cleaned"
  /\ disk' = Cleanup(disk, logDirectory, now)
  /\ pc' = "cleanedTwice"
  /\ UNCHANGED <<options, host, now, streams, stream, lastDate, buffer, flushTimer, timers,
                 obj, nRead, closePc, closeWait, rotArch, closeArch, closeDate,
                 dropped, written, accepted, atClose, archiveFailed, logDirectory,
                 fallbackOut, startupLog>>

CleanupNext == CleanupPass \/ CleanupAgain

CleanupSpec == CleanupInit /\ [][CleanupNext]_vars

\* a file that is there and whose unlink throws (EPERM, EBUSY)
LockedFile == [state |-> "locked", lines |-> OldLines]

\* the logs of logDirectory and the containers of the archive directory that
\* the cleanups with failures start from
FailingNames ==
  {f \in CleanupNames : \/ f.dir = "." /\ f.ext = "log" /\ f.date # NoDate
                                /\ f.date <= StartDay
                        \/ f.dir = "archive"}

\* a cleanup over directories in which any file may be locked, with a
\* logDirectory that can be read or cannot
FailingCleanupInit ==
  /\ options \in CleanupOptions
  /\ host \in Hosts
  /\ logDirectory \in {"present", "unusable"}
  /\ \E g \in [FailingNames -> {NoFile, LogFile(OldLines), LockedFile}] :
       disk = [f \in Names |-> IF f \in FailingNames THEN g[f] ELSE NoFile]
  /\ now \in FirstTick .. (FirstTick + TicksPerDay - 1)
  /\ Fresh

FailingCleanupSpec == FailingCleanupInit /\ [][CleanupNext]_vars

\* the event loop runs every continuation, timer and I/O completion that is
\* due; nothing obliges the host to log, to close, or a stream to fail
Fairness ==
  /\ WF_vars(FlushTimerFires)
  /\ WF_vars(\E graceful \in BOOLEAN : RotateAfterFinish(graceful))
  /\ WF_vars(\E graceful \in BOOLEAN : RotationResumes(graceful))
  /\ WF_vars(\E ok \in BOOLEAN, graceful \in BOOLEAN : RotationArchiveStep(ok, graceful))
  /\ WF_vars(CloseAfterFinish)
  /\ WF_vars(\E ok \in BOOLEAN : CloseArchiveStep(ok))
  /\ WF_vars(\E i \in 1 .. Len(streams) : StreamFinish(i))

FairSpec == LiveInit /\ [][Next]_vars /\ Fairness

---------------------------------------------------------------------------
(* Properties *)

Ids == 1 .. MaxRecords

\* the records of this run that reached a file
WrittenIds == {w.id : w \in written}

\* the records appended to the buffer so far
Appended == Range(buffer) \cup WrittenIds \cup dropped \cup fallbackOut

\* the records that passed the level filter so far
Passed == {id \in 1 .. Len(accepted) : accepted[id] # NoDate}

\* the lines of this run in a file (an earlier run's lines are numbered 0) are
\* in the order the records were read
InOrder(file) ==
  \A j, k \in 1 .. Len(disk[file].lines) :
    j < k /\ disk[file].lines[j] # 0 /\ disk[file].lines[k] # 0
      => disk[file].lines[j] < disk[file].lines[k]

\* the lines of this run in a file belong to records read on the file's date
OfItsDate(file) ==
  \A k \in 1 .. Len(disk[file].lines) :
    disk[file].lines[k] # 0 => accepted[disk[file].lines[k]] = file.date

\* C1: every record is written only to the file (later the container) of the
\* date that was active when it was accepted, the records of a file are in the
\* order they were accepted, and no record accepted after a rotation is in the
\* file of the date before it
RotationCorrectness ==
  /\ \A w \in written : accepted[w.id] = w.date
  /\ \A file \in AllFiles(disk) : OfItsDate(file) /\ InOrder(file)

\* C1 witness: after a rotation the files of two dates each hold a record
RotationCorrectnessWitness ==
  \E f, g \in readdirSync(disk) :
    /\ f.ext = "log" /\ g.ext = "log" /\ f.date < g.date
    /\ \E j \in 1 .. Len(disk[f].lines) : disk[f].lines[j] # 0
    /\ \E k \in 1 .. Len(disk[g].lines) : disk[g].lines[k] # 0

\* C2: when close() has completed the buffer is empty, the sink's stream is
\* closed, and every record that was in the buffer when close() was called has
\* been written
BufferDrainOnShutdown ==
  closePc = "done" =>
    /\ buffer = <<>>
    /\ streams[stream].st = "finished"
    /\ atClose \subseteq WrittenIds

\* the streams not yet closed, and those that still take writes
Unfinished == {i \in DOMAIN streams : streams[i].st # "finished"}
OpenStreams == {i \in DOMAIN streams : IsOpen(streams[i])}

RotationStalled == pc = "rotEnd" /\ streams[stream].errored

ArchiveSettles ==
  \/ \E ok \in BOOLEAN, graceful \in BOOLEAN : RotationArchiveStep(ok, graceful)
  \/ \E ok \in BOOLEAN : CloseArchiveStep(ok)

\* C5: with a format other than none, an archive operation removes the source
\* log file only when its container is completely written and closed, and an
\* archive that failed leaves the source log file in place
ArchiveThenDelete ==
  [][ArchiveSettles =>
       \A file \in readdirSync(disk) :
         LET container == archiveName(file, options.archiveFormat)
         IN /\ file.ext = "log" /\ ~existsSync(disk', file)
                 => disk'[container].state = "ok"
            /\ file.ext = "log" /\ disk'[container].state = "failed"
                 /\ disk[container].state = "writing"
                 => existsSync(disk', file)]_vars

\* Pino's number of a level name; silent is above every record
PinoValue(level) ==
  CASE level = "trace" -> 10
    [] level = "debug" -> 20
    [] level = "info" -> 30
    [] level = "warn" -> 40
    [] level = "error" -> 50
    [] level = "fatal" -> 60
    [] level = "silent" -> 70

\* the records the loop kept: appended, or held by a rotation in flight
Kept == Appended \cup ({obj.id} \ {0})

\* C6: a record is kept if and only if its level is at least as urgent as the
\* configured minimum level; with silent nothing is written; and the records
\* written are in the order they arrived
LevelFilter ==
  /\ [][\A objLevel \in PinoLevels :
          IngestRecord(objLevel) =>
            (nRead' \in Kept' <=> objLevel >= PinoValue(options.level))]_vars
  /\ [](options.level = "silent" => written = {} /\ buffer = <<>>)
  /\ [](\A file \in AllFiles(disk) : InOrder(file))

\* C6 witness: of two records read under minimum level warn one was skipped
\* and the other written
LevelFilterWitness ==
  /\ options.level = "warn"
  /\ nRead = 2
  /\ Cardinality(Passed) = 1
  /\ Cardinality(WrittenIds) = 1

\* C7: close() eventually returns, whatever state it was called in
ShutdownCompletes == (closePc # "idle") ~> (closePc = "done")

\* C8: whatever failed before, a record that passes the level filter is
\* accepted and appended to the buffer
NoFailureCrossesBoundary ==
  \A id \in Ids : (id \in Passed) ~> (id \in Appended)

\* retentionDays is a finite number that is not negative
ValidRetention == isFinite(options.retentionDays) /\ options.retentionDays.v >= 0

\* the files a step of the sink deleted or emptied
Lost == {file \in readdirSync(disk) : disk'[file] # disk[file]}

\* C9: with a valid retentionDays the cleanup at construction deletes exactly
\* the files whose date is before today minus retentionDays, at any time of
\* day, and keeps a file dated today minus retentionDays or later
RetentionCutoff ==
  [][fileTransport /\ ValidRetention =>
       \A file \in filterRelevantFiles(readdirSync(disk), options.filename) :
         file \in Lost <=> file.date < getCurrentDate(now) - options.retentionDays.v]_vars

\* C10: with a negative or non-finite retentionDays the cleanup at
\* construction deletes nothing
InvalidRetentionIsNoOp ==
  [][fileTransport /\ ~ValidRetention => Lost = {}]_vars

\* the logs of the directory whose name carries no date
UndatedFiles == {file \in readdirSync(disk) : file.date = NoDate /\ file.ext = "log"}

\* C11: a file whose name does not end in -<YYYY-MM-DD>.<log|zip|tar.gz|tar>
\* (app.log of the base app) is never deleted and never archived: no step
\* removes or rewrites it, and no step writes a container of it
UnpatternedFilesUntouched ==
  [][\A file \in UndatedFiles :
       /\ disk'[file] = disk[file]
       /\ \A arch \in DOMAIN disk :
            (arch.base = file.base /\ arch.date = NoDate) => disk'[arch] = disk[arch]]_vars

\* the logs of the base other than today's, as close()'s pass reads them
NonCurrentLogs ==
  {file \in readdirSync(disk) :
     /\ startsWith(file, options.filename)
     /\ endsWith(file, "log")
     /\ file # logName(options.filename, getCurrentDate(now))}

Expired(file) ==
  /\ extractDateFromFilename(file) # Null
  /\ DateLess(extractDateFromFilename(file),
              calculateCutoffDate(options.retentionDays, now))

Appends ==
  /\ pc = "next" /\ pc' = "next"
  /\ nRead' = nRead + 1
  /\ accepted'[nRead'] # NoDate

\* C14: the buffer always holds fewer than bufferSize records; the append that
\* brings it to bufferSize empties it in the same step, handing all buffered
\* records and the new one to the stream in insertion order as one write, with
\* no timer left armed
SizeTriggeredFlush ==
  /\ [](Len(buffer) < options.bufferSize)
  /\ [][(Appends /\ Len(buffer) + 1 = options.bufferSize) =>
          LET data == Append(buffer, nRead')
              file == logName(options.filename, lastDate)
          IN /\ buffer' = <<>>
             /\ ~flushTimer'
             /\ CASE ~IsOpen(streams[stream]) -> Range(data) \subseteq dropped'
                  [] streams[stream].kind = "fallback" -> Range(data) \subseteq fallbackOut'
                  [] streams[stream].errored -> Range(data) \subseteq dropped'
                  [] OTHER -> disk'[file].lines = Touch(disk, file)[file].lines \o data]_vars

\* C14 witness: with bufferSize 2 the second record filled the buffer, and
\* both records are in the file in the order they were accepted
SizeTriggeredFlushWitness ==
  /\ options.bufferSize = 2 /\ nRead = 2 /\ closePc = "idle" /\ pc = "next"
  /\ buffer = <<>> /\ ~flushTimer
  /\ LET lines == disk[logName(options.filename, lastDate)].lines
     IN Len(lines) >= 2 /\ SubSeq(lines, Len(lines) - 1, Len(lines)) = <<1, 2>>

\* a step of close()'s archive pass
ClosePassStep == CloseAfterFinish \/ \E ok \in BOOLEAN : CloseArchiveStep(ok)

\* no archive step has failed
NoArchiveFailed == ~archiveFailed

\* the dated logs of the base of another date than the one close() read
StaleLogs ==
  {file \in readdirSync(disk) :
     /\ startsWith(file, options.filename) /\ endsWith(file, "log")
     /\ file.date # NoDate /\ file.date # closeDate}

\* C15: with an archiveFormat other than none, close() takes every log of the
\* base other than today's into its archive pass whatever archiveOnRotation;
\* every step of the pass that does not fail removes its log and leaves the
\* container <base>-<D>.<ext>; no step of the pass touches today's log or
\* writes a container of it; and when close() has completed with no archive
\* step failed, no <base>-<D>.log with D other than today remains
ShutdownArchivePass ==
  /\ []((closePc = "done" /\ options.archiveFormat # "none" /\ NoArchiveFailed)
          => StaleLogs = {})
  /\ [][(ClosePassStep /\ options.archiveFormat # "none") =>
          LET today == logName(options.filename, closeDate')
          IN /\ CloseAfterFinish => Range(closeArch') = NonCurrentLogs
             /\ (closePc = "archive"
                 /\ disk'[archiveName(Head(closeArch), options.archiveFormat)].state # "failed")
                  => /\ ~existsSync(disk', Head(closeArch))
                     /\ existsSync(disk', archiveName(Head(closeArch), options.archiveFormat))
             /\ disk'[today] = disk[today]
             /\ \A arch \in Names :
                  arch = archiveName(today, options.archiveFormat)
                    => disk'[arch] = disk[arch]]_vars

\* C15 witness: archiveOnRotation is off, close() has completed without a
\* failed step, today's log is there, and a log of another day has been
\* replaced by its container
ShutdownArchivePassWitness ==
  /\ options.archiveFormat # "none" /\ ~options.archiveOnRotation
  /\ closePc = "done" /\ NoArchiveFailed
  /\ existsSync(disk, logName(options.filename, closeDate))
  /\ \E file \in Names, arch \in AllFiles(disk) :
       /\ file.ext = "log" /\ file.date # NoDate /\ file.date # closeDate
       /\ ~existsSync(disk, file)
       /\ arch = archiveName(file, options.archiveFormat)
       /\ disk[arch].lines # <<>>

\* C16: when the file of the log directory cannot be opened the sink's
\* stream is the console fallback, and no record flushed to it is discarded
FallbackDestination ==
  (pc # "new" /\ logDirectory # "present") =>
    /\ \A i \in DOMAIN streams : streams[i].kind = "fallback"
    /\ dropped = {}

\* C17: fileTransport can always be called and always returns the transport
\* with a stream; it creates an absent log directory; and when the directory
\* cannot be created or scanned it reports the failure with console.error
ConstructionNeverFails ==
  /\ [](pc = "new" => ENABLED fileTransport)
  /\ [][fileTransport =>
          /\ pc' = "next"
          /\ stream' \in DOMAIN streams'
          /\ (logDirectory = "absent" => logDirectory' = "present")
          /\ (logDirectory \in {"unusable", "invalid"} =>
                /\ "Error ensuring log directory exists" \in startupLog'
                /\ "Error processing directory" \in startupLog')]_vars

\* C17 witness: the transport was returned for a directory that could not be
\* created, and the failure was reported
ConstructionNeverFailsWitness ==
  /\ pc # "new" /\ stream = 1
  /\ logDirectory = "unusable"
  /\ "Error ensuring log directory exists" \in startupLog

\* the cutoffs of the model: any time of the days of the model, or Invalid Date
Cutoffs == {Num(t) : t \in 0 .. (FirstTick + MaxTicks + TicksPerDay)} \cup {NaN}

\* C18: a second cleanup pass with the same cutoff deletes nothing: the call
\* repeated at the same time leaves the directory as the first call left it,
\* and for every directory content a run starts from and every cutoff
\* processDirectoryFiles applied twice gives what it gives applied once
RetentionIdempotence ==
  /\ [][CleanupAgain => disk' = disk]_vars
  /\ [](pc = "new" =>
        \A cutoffDate \in Cutoffs :
          \A directory \in {".", "archive"} :
            processDirectoryFiles(
              processDirectoryFiles(disk, directory, options.filename, cutoffDate),
              directory, options.filename, cutoffDate)
            = processDirectoryFiles(disk, directory, options.filename, cutoffDate))

\* C18 witness: both passes have run; a file within the retention period is
\* there and no file older than the cutoff is
RetentionIdempotenceWitness ==
  /\ pc = "cleanedTwice"
  /\ \E file \in readdirSync(disk) : extractDateFromFilename(file) # Null
  /\ \A file \in readdirSync(disk) : ~Expired(file)
  /\ isFinite(options.retentionDays) /\ options.retentionDays.v = 1

\* C19: whatever the filename, the sink's files are direct children of
\* logDirectory (its containers, of the archive directory): it creates no file
\* anywhere else
SanitisedFilename ==
  \A file \in AllFiles(disk) :
    file.dir \in {".", targetArchiveDirectory(options.archiveDirectory)}

\* the extension of the containers of the configured format
ExpectedExtension ==
  CASE options.archiveFormat = "zip" -> "zip"
    [] options.archiveFormat = "gzip" -> "tar.gz"
    [] options.archiveFormat = "tar" -> "tar"

\* the files a step creates
Created == {file \in Names : ~existsSync(disk, file) /\ existsSync(disk', file)}

\* does the file hold a record of this run?
HoldsRecords(file) == \E k \in 1 .. Len(disk[file].lines) : disk[file].lines[k] # 0

\* C20: a file the sink creates is either the log <logDirectory>/<filename>-<D>.log
\* of the active date D, or the container of a log <base>-<D>.log of
\* logDirectory, named <base>-<D>.zip, .tar.gz (gzip) or .tar and placed in
\* archiveDirectory when one is configured, in logDirectory otherwise; and the
\* records of a run are in files of these names only
OnDiskNaming ==
  /\ [][\A file \in Created :
          \/ /\ file.dir = dirname(options.filename)
             /\ file.base = basename(options.filename)
             /\ file.ext = "log"
             /\ file.date = lastDate'
          \/ /\ options.archiveFormat # "none"
             /\ file.ext = ExpectedExtension
             /\ file.dir = (IF options.archiveDirectory # ""
                            THEN options.archiveDirectory ELSE ".")
             /\ \E log \in readdirSync(disk) :
                  log.ext = "log" /\ log.base = file.base /\ log.date = file.date]_vars
  /\ [](\A file \in AllFiles(disk) :
          HoldsRecords(file) =>
            /\ file.base = basename(options.filename)
            /\ file.date # NoDate
            /\ \/ file.ext = "log" /\ file.dir = dirname(options.filename)
               \/ /\ options.archiveFormat # "none"
                  /\ file.ext = ExpectedExtension
                  /\ file.dir = (IF options.archiveDirectory # ""
                                 THEN options.archiveDirectory ELSE "."))

\* C20 witness: with format gzip and an archive directory, after close() the
\* log of the day before the rotation is a .tar.gz in the archive directory
\* with its record, and the log of the active date is in logDirectory
OnDiskNamingWitness ==
  /\ options.archiveFormat = "gzip" /\ options.archiveDirectory = "archive"
  /\ closePc = "done" /\ lastDate # NoDate
  /\ existsSync(disk, [dir |-> ".", base |-> "app", date |-> lastDate, ext |-> "log"])
  /\ \E file \in AllFiles(disk) :
       /\ file.dir = "archive" /\ file.ext = "tar.gz" /\ file.date < lastDate
       /\ HoldsRecords(file)

---------------------------------------------------------------------------
(* Maintenance and the files the sink holds open *)

\* does the sink hold a descriptor on this file: a file stream of its date
\* that has not confirmed 'finish'?
OpenOn(ss, file) ==
  \E i \in DOMAIN ss :
    /\ ss[i].kind = "file" /\ ss[i].st # "finished"
    /\ logName(options.filename, ss[i].date) = file

\* the log files a step deletes, or whose content it discards
Removed ==
  {file \in AllFiles(disk) :
     /\ file.ext = "log"
     /\ \/ ~existsSync(disk', file)
        \/ Len(disk'[file].lines) < Len(disk[file].lines)}

\* the log files a step starts to read into a container
Archived ==
  {file \in AllFiles(disk) :
     /\ file.ext = "log"
     /\ \E arch \in Names :
          /\ arch = archiveName(file, options.archiveFormat)
          /\ disk'[arch].state = "writing" /\ disk[arch] # disk'[arch]}

CloseBeforeMaintenanceWitness ==
  /\ Len(streams) = 2 /\ streams[1].st = "finished" /\ streams[2].st = "open"
  /\ pc = "next" /\ written # {}
  /\ ~existsSync(disk, logName(options.filename, streams[1].date))

---------------------------------------------------------------------------
(* The flushes of the buffer *)

\* the records handed to a write of a destination so far
Handed == WrittenIds \cup dropped \cup fallbackOut

AwaitingDrain == {i \in DOMAIN streams : streams[i].needDrain /\ ~streams[i].errored}

\* C23: from a write that returns false until 'drain' the flush has not
\* completed: the sink issues no further write to that stream and does not
\* end it
Backpressure ==
  /\ [](\A i \in AwaitingDrain : streams[i].st = "open")
  /\ [][\A i \in AwaitingDrain :
          /\ ~(stream' = i /\ Handed' # Handed)
          /\ streams'[i].st = "open"]_vars

\* how often a record of this run is in the lines of a file
Copies(file, id) ==
  Cardinality({k \in 1 .. Len(disk[file].lines) : disk[file].lines[k] = id})

\* C24: a record is handed to a write at most once: no record that a write
\* was given is still in the buffer, every step in which a flush writes leaves
\* the buffer empty whether the write fails or not, a record of a failed
\* write never reaches a file, and no record is twice in a file or in two logs
AtMostOnceDelivery ==
  /\ [](Range(buffer) \cap Handed = {})
  /\ [](dropped \cap (WrittenIds \cup fallbackOut) = {})
  /\ [](\A id \in Ids :
          /\ \A file \in AllFiles(disk) : Copies(file, id) <= 1
          /\ \A f, g \in AllFiles(disk) :
               (f.ext = "log" /\ g.ext = "log" /\ Copies(f, id) > 0 /\ Copies(g, id) > 0)
                 => f = g)
  /\ [][Handed' # Handed => buffer' = <<>>]_vars

\* C24 witness: the first record is in the file, the write of the second
\* failed, and the buffer is empty with no timer armed
AtMostOnceDeliveryWitness ==
  /\ WrittenIds = {1} /\ dropped = {2}
  /\ buffer = <<>> /\ ~flushTimer /\ closePc = "idle"

---------------------------------------------------------------------------
(* Filtered records *)

\* C25: the step that reads a record below the minimum level (any record when
\* the level is silent) leaves activeDate, the streams, the buffer, the flush
\* timer and the files as they are and starts no rotation and no pass, also
\* when the date read now differs from activeDate
FilteredChangesNothing ==
  [][\A objLevel \in PinoLevels :
       (IngestRecord(objLevel) /\ objLevel < PinoValue(options.level))
         => UNCHANGED <<lastDate, stream, streams, buffer, flushTimer, timers, disk, pc, obj,
                        rotArch, closeArch, closePc, written, dropped, fallbackOut>>]_vars

\* C25 witness: a record was buffered with its timer armed, the date has
\* changed, and the record read last was filtered: the stream of the old date
\* is open, the buffer and the timer are as they were
FilteredChangesNothingWitness ==
  /\ nRead = 2 /\ accepted[1] # NoDate /\ accepted[2] = NoDate
  /\ getCurrentDate(now) # lastDate /\ pc = "next" /\ closePc = "idle"
  /\ buffer = <<1>> /\ flushTimer
  /\ Len(streams) = 1 /\ IsOpen(streams[1])

---------------------------------------------------------------------------
(* The passes of a rotation *)

\* a step of rotateLogFile after 'finish'
RotationStep ==
  \/ \E graceful \in BOOLEAN : RotateAfterFinish(graceful) \/ RotationResumes(graceful)
  \/ \E ok, graceful \in BOOLEAN : RotationArchiveStep(ok, graceful)

\* the files a step removes
RemovedFiles == {file \in AllFiles(disk) : ~existsSync(disk', file)}

\* the containers a step creates or rewrites
WrittenContainers ==
  {file \in Names : file.ext # "log" /\ existsSync(disk', file) /\ disk'[file] # disk[file]}

\* has the step left the container of this log, or is the format none?
ArchivedBy(file) ==
  \/ options.archiveFormat = "none"
  \/ \E arch \in Names :
       /\ arch = archiveName(file, options.archiveFormat)
       /\ disk'[arch].state \in {"flushing", "ok"}

RotationCompletes ==
  \A id \in Ids :
    (pc = "rotEnd" /\ obj.id = id) ~>
      (/\ pc \in {"next", "ended"}
       /\ id \in Appended
       /\ lastDate = accepted[id]
       /\ streams[stream].date = lastDate /\ IsOpen(streams[stream]))

---------------------------------------------------------------------------
(* The flush timer *)

\* a step in which handleFlushBuffer runs
Flushes ==
  \/ FlushTimerFires
  \/ close
  \/ \E objLevel \in PinoLevels : IngestRecord(objLevel) /\ pc' = "rotEnd"
  \/ Handed' # Handed

\* C28: at most one timeout is pending, and it is the one flushTimer holds;
\* a step that schedules a flush while a timeout is pending leaves one pending;
\* and every step in which a flush runs leaves none pending
SinglePendingTimer ==
  /\ [](timers <= 1)
  /\ [](flushTimer <=> timers = 1)
  /\ [][(timers >= 1 /\ buffer' # buffer /\ buffer' # <<>>) => timers' = 1]_vars
  /\ [][Flushes => timers' = 0 /\ ~flushTimer']_vars

\* C28 witness: two records are buffered, the second appended while the timer
\* of the first was pending, and one timeout is pending
SinglePendingTimerWitness ==
  /\ Len(buffer) = 2 /\ options.bufferSize > 2
  /\ flushTimer /\ timers = 1 /\ closePc = "idle"

---------------------------------------------------------------------------
(* Failures of the passes *)

\* the containers whose archive fails in a step
FailedContainers ==
  {arch \in Names : disk'[arch].state = "failed" /\ disk[arch].state # "failed"}

\* the log a container is written from
SourceOf(arch) == [arch EXCEPT !.ext = "log", !.dir = "."]

\* a step of an archive pass in which the archive of the file in progress fails
PassStepFails ==
  \/ \E graceful \in BOOLEAN : RotationArchiveStep(FALSE, graceful)
  \/ CloseArchiveStep(FALSE)

\* C29: the archive of a file does not fail after it has removed its source
\* (its container is not one that awaits its output with the source unlinked),
\* and the failure is logged and leaves the source in place; the step
\* of a pass in which a file fails goes on to the next file of the pass, or
\* ends the pass when there is none; and every pass, and close() with it, ends
ArchiveFailuresIndependent ==
  /\ [][\A arch \in FailedContainers :
          /\ archiveFailed'
          /\ disk[arch].state # "flushing"
          /\ existsSync(disk, SourceOf(arch)) => existsSync(disk', SourceOf(arch))]_vars
  /\ [][CloseArchiveStep(FALSE) =>
          /\ closeArch' = Tail(closeArch)
          /\ closeArch' # <<>> =>
               \E arch \in Names :
                 /\ arch = archiveName(Head(closeArch'), options.archiveFormat)
                 /\ disk'[arch].state = "writing"
          /\ closeArch' = <<>> => closePc' = "done"]_vars
  /\ [][(\E graceful \in BOOLEAN : RotationArchiveStep(FALSE, graceful)) =>
          /\ rotArch' = IF Tail(rotArch) = <<>> THEN <<>> ELSE Tail(rotArch)
          /\ rotArch' # <<>> =>
               \E arch \in Names :
                 /\ arch = archiveName(Head(rotArch'), options.archiveFormat)
                 /\ disk'[arch].state = "writing"
          /\ rotArch' = <<>> => pc' \in {"next", "ended"}]_vars
  /\ (closePc = "archive") ~> (closePc = "done")
  /\ (pc = "rotArchive") ~> (pc \in {"next", "ended"})

\* is the file one the cleanup deletes: of the base, with a date before the
\* cutoff?
PastCutoff(file) ==
  /\ file \in filterRelevantFiles({file}, options.filename)
  /\ Expired(file)

\* C30: whatever files of a directory cannot be deleted, a cleanup pass with a
\* valid retentionDays deletes every other file of the directory that is past
\* the cutoff and leaves the rest; and whether logDirectory can be scanned or
\* not, it does so in the archive directory, which is another directory
CleanupFailuresIndependent ==
  [][(CleanupPass /\ ValidRetention) =>
       /\ \A file \in AllFiles(disk) :
            (/\ file.dir = "archive" \/ (file.dir = "." /\ logDirectory = "present")
             /\ PastCutoff(file) /\ disk[file].state # "locked")
              => ~existsSync(disk', file)
       /\ \A file \in AllFiles(disk) :
            (\/ ~PastCutoff(file) \/ disk[file].state = "locked"
             \/ (file.dir = "." /\ logDirectory # "present"))
              => disk'[file] = disk[file]]_vars

\* C30 witness: logDirectory could not be scanned and a container of the
\* archive directory could not be deleted; the pass has run, the locked
\* container is there and no other file past the cutoff is left in the archive
\* directory, while logDirectory still holds a file past the cutoff
CleanupFailuresIndependentWitness ==
  /\ pc = "cleaned" /\ logDirectory = "unusable" /\ ValidRetention
  /\ \E file \in readdir(disk, "archive") :
       PastCutoff(file) /\ disk[file].state = "locked"
  /\ \A file \in readdir(disk, "archive") :
       PastCutoff(file) => disk[file].state = "locked"
  /\ \E file \in readdir(disk, "archive") : ~PastCutoff(file)
  /\ \E file \in readdirSync(disk) : PastCutoff(file) /\ disk[file].state # "locked"

---------------------------------------------------------------------------
(* The clock of a rotation *)

\* the records a step appends to the buffer
NewlyAppended == Appended' \ Appended

\* C31: a step that reads a record that passes the level filter reads the
\* date of the wall clock for it and starts a rotation if and only if that
\* date differs from lastDate, be it later or earlier and whatever timestamp
\* the record carries; and in the step that appends the record to the
\* buffer, which ends its processing, lastDate is the date read for it and
\* the sink's stream is one that has not been ended, opened on
\* <logDirectory>/<base>-<lastDate>.log, which exists
WallClockRotation ==
  /\ [][\A objLevel \in PinoLevels, objTime \in Stamps :
          (StampedRecord(objLevel, objTime) /\ objLevel >= PinoValue(options.level)) =>
            /\ accepted'[nRead'] = getCurrentDate(now)
            /\ pc' = "rotEnd" <=> getCurrentDate(now) # lastDate
            /\ pc' = "rotEnd" => obj' = [id |-> nRead', date |-> getCurrentDate(now)]
            /\ pc' # "rotEnd" => nRead' \in NewlyAppended]_vars
  /\ [][\A id \in NewlyAppended :
          /\ lastDate' = accepted'[id]
          /\ stream' \in DOMAIN streams'
          /\ IsOpen(streams'[stream'])
          /\ streams'[stream'].date = lastDate'
          /\ logDirectory = "present" =>
               /\ streams'[stream'].kind = "file"
               /\ existsSync(disk', logName(options.filename, lastDate'))]_vars

\* C31 witness: the clock was set back to the day before the sink was
\* constructed, a record read then, with a timestamp of another day, has
\* rotated the file, and the record is in the log of that earlier day
WallClockRotationWitness ==
  /\ Len(streams) = 2 /\ stream = 2 /\ IsOpen(streams[2])
  /\ lastDate < streams[1].date
  /\ getCurrentDate(now) = lastDate
  /\ \E w \in written : w.date = lastDate /\ accepted[w.id] = lastDate

---------------------------------------------------------------------------
(* Writes and the end of a stream *)

\* a step in which the sink issues a write: to `stream`, as the variable is
\* after the step (a rotation writes to the stream it has just opened)
IssuesWrite == Handed' # Handed

\* C32: every write the sink issues goes to a stream on which end() has not
\* been called: the stream it holds if it has not been ended, or the one the
\* step has just opened; and while a timeout is pending, and when it fires,
\* the stream the sink holds has not been ended, so that no timer armed
\* before a rotation or before close() flushes to the ended stream
NoWriteAfterEnd ==
  /\ [][IssuesWrite =>
          /\ stream' \in DOMAIN streams'
          /\ stream' \in DOMAIN streams => IsOpen(streams[stream'])
          /\ \A i \in DOMAIN streams :
               ~IsOpen(streams[i]) => streams'[i] = streams[i]]_vars
  /\ [](timers > 0 => stream \in DOMAIN streams /\ IsOpen(streams[stream]))
  /\ [][FlushTimerFires => IsOpen(streams[stream])]_vars
  /\ [][\A i \in DOMAIN streams :
          (IsOpen(streams[i]) /\ ~IsOpen(streams'[i])) => timers' = 0 /\ buffer' = <<>>]_vars

\* C32 witness: a record was buffered with its timer armed, the next record
\* rotated the file and was buffered in its turn, close() has completed, and
\* both records are in files, none handed to a write that failed
NoWriteAfterEndWitness ==
  /\ options.bufferSize = 2 /\ closePc = "done"
  /\ Len(streams) = 2 /\ streams[1].st = "finished" /\ streams[2].st = "finished"
  /\ WrittenIds = {1, 2} /\ dropped = {}
  /\ \E v, w \in written : v.id = 1 /\ w.id = 2 /\ v.date < w.date

---------------------------------------------------------------------------
(* close() while a rotation is in flight *)

\* close() was called during a rotation, which has opened its stream since:
\* the stream close() ended is not the one the sink holds
ClosedDuringRotation == closePc # "idle" /\ closeWait # stream

\* C33: when close() was called while a rotation was in flight and both have
\* completed, no stream is open and no flush timer is armed
CloseDuringRotation ==
  (ClosedDuringRotation /\ closePc = "done" /\ pc = "ended") =>
    /\ OpenStreams = {}
    /\ ~flushTimer /\ timers = 0

---------------------------------------------------------------------------
(* Cleanup and the file of the current date *)

\* a step in which cleanupOldFiles runs: the construction, and the first step
\* of a rotation after 'finish' when cleanupOnRotation is set
CleanupRuns ==
  \/ fileTransport
  \/ options.cleanupOnRotation /\ \E graceful \in BOOLEAN : RotateAfterFinish(graceful)

\* does the step leave the file in place with the lines it held?
Survives(file) ==
  /\ existsSync(disk', file)
  /\ Len(disk'[file].lines) >= Len(disk[file].lines)
  /\ SubSeq(disk'[file].lines, 1, Len(disk[file].lines)) = disk[file].lines

\* C34: with a retentionDays of 0 or more, a step in which cleanup runs, at
\* construction or at a rotation, at any time of day, leaves the log file of
\* the current date in place with the lines an earlier run wrote (unless the
\* archive pass of the same rotation step takes it as a log of another date
\* than the one the rotation was started for)
CleanupSparesToday ==
  [][(CleanupRuns /\ ValidRetention) =>
       LET today == logName(options.filename, getCurrentDate(now))
       IN existsSync(disk, today) =>
            \/ Survives(today)
            \/ /\ pc = "rotEnd" /\ options.archiveOnRotation
               /\ today # logName(options.filename, obj.date)]_vars

---------------------------------------------------------------------------
(* Containers that are there already *)

\* the containers that are complete
Complete == {arch \in AllFiles(disk) : arch.ext # "log" /\ disk[arch].state = "ok"}

\* C35: when a step starts to archive a log <base>-<D>.log that is there
\* while its container <base>-<D>.<ext> is there and complete, the container
\* still holds every record it held: the earlier archive is not discarded
ArchiveKeepsArchived ==
  [][\A file \in Archived :
       \A arch \in Complete :
         arch = archiveName(file, options.archiveFormat) =>
           /\ existsSync(disk', arch)
           /\ \A k \in 1 .. Len(disk[arch].lines) :
                disk[arch].lines[k] \in Range(disk'[arch].lines)]_vars

---------------------------------------------------------------------------
(* The files of other programs *)

\* the files a step deletes, rewrites or starts to read into a container
Maintained ==
  {file \in AllFiles(disk) : disk'[file] # disk[file]} \cup Archived

\* C36: the files a step of the sink deletes, rewrites or archives are named
\* <base>-<YYYY-MM-DD>.<ext> with the base of the sink: a file of another
\* base that begins with the sink's base (app2-<date>.log for the base app)
\* stays as it is, and no container is written of it
MaintenanceConfined ==
  [][/\ \A file \in Maintained :
          file.base = basename(options.filename) /\ file.date # NoDate
     /\ \A file \in Names :
          file.base # basename(options.filename) => disk'[file] = disk[file]]_vars

---------------------------------------------------------------------------
(* Records without a level of Pino *)

\* the minimum levels under which an info record is written
AtLeastInfo == {"info", "debug", "trace"}

\* C37: a record whose level is missing, zero or none of 10, 20, 30, 40, 50,
\* 60 passes the filter exactly when an info record does, and the step that
\* reads it keeps it if and only if the minimum level is info, debug or trace
UnknownCountsAsInfo ==
  /\ [](\A objLevel \in UnknownLevels :
          /\ shouldWriteLog(objLevel, options.level) <=> shouldWriteLog(30, options.level)
          /\ shouldWriteLog(objLevel, options.level) <=> options.level \in AtLeastInfo)
  /\ [][\A objLevel \in UnknownLevels :
          IngestRecord(objLevel) =>
            /\ nRead' \in Kept' <=> options.level \in AtLeastInfo
            /\ accepted'[nRead'] # NoDate <=> options.level \in AtLeastInfo]_vars

\* C37 witness: under the minimum level debug two records without a level of
\* Pino were read and both are in the file
UnknownCountsAsInfoWitness ==
  /\ options.level = "debug"
  /\ nRead = 2 /\ Passed = {1, 2}
  /\ WrittenIds = {1, 2}

====
